---- MODULE Spec2Model ----
(***************************************************************************)
(* Model of CommandOperation (src/src/operations/command.ts): construction *)
(* of a command operation (namespace, concerns, explain directive) and the *)
(* execution-time decoration pipeline of executeCommand, which mutates the *)
(* caller's command document and hands it to the server's command().       *)
(*                                                                         *)
(* JavaScript values are modelled as follows.                              *)
(*   - an optional value (possibly undefined) is a sequence of length 0    *)
(*     (undefined) or 1 (the value);                                       *)
(*   - a Document is a function from the names of the fields it has to     *)
(*     their values, so a field the document lacks is not in its DOMAIN;   *)
(*   - Object.assign(cmd, {k: v}) and cmd.k = v are Assign(cmd, k, v).     *)
(***************************************************************************)
EXTENDS Integers, Sequences, FiniteSets, TLC

VARIABLES
    pc,        \* "new": not constructed; "ready": constructed; "threw": the constructor threw
    args,      \* the constructor call: parent, options and the operation kind's aspects (optional)
    op,        \* the CommandOperation object (optional: none before construction or after a throw)
    cmd,       \* the caller-owned command document, as the last executeCommand left it (optional)
    call       \* the last executeCommand call: its inputs, the document before, what it did

vars == <<pc, args, op, cmd, call>>

(***************************************************************************)
(* Bounds and input domains                                                *)
(***************************************************************************)
\* Highest wire version a server reports in the model (the lowest is 4).
MaxWireVersion == 6

WireVersions == 4..MaxWireVersion

Aspects == {"EXPLAINABLE", "WRITE_OPERATION"}

Undefined == <<>>

Some(v) == <<v>>

Optional(S) == {Undefined} \cup {Some(v) : v \in S}

\* The options bag of the constructor, restricted to the keys command.ts reads.
OptionBags ==
    [dbName       : Optional({"", "db1"}),
     authdb       : Optional({"auth"}),
     readConcern  : Optional({[level |-> "majority"]}),
     writeConcern : Optional({[w |-> 1]}),
     collation    : Optional({[locale |-> "en"]}),
     maxTimeMS    : Optional({0}),
     comment      : Optional({[kind |-> "string", value |-> "note"],
                              [kind |-> "document", value |-> "note"]}),
     explain      : Optional(BOOLEAN)]

\* Parent entities: each exposes s.namespace, here a collection's namespace.
Parents == Optional({[s |-> [namespace |-> [db |-> "app", collection |-> "users"]]]})

\* The constructor calls of the model: every combination of the decoration
\* options with no parent and no database-name override, and every combination
\* of parent and database-name overrides with the collation and explain options.
ConstructorInputs ==
    {in \in [parent : Parents, options : OptionBags] :
        \/ /\ in.parent = Undefined
           /\ in.options.dbName = Undefined
           /\ in.options.authdb = Undefined
        \/ /\ in.options.readConcern = Undefined
           /\ in.options.writeConcern = Undefined
           /\ in.options.maxTimeMS = Undefined
           /\ in.options.comment = Undefined}

\* Command documents a caller builds: the verb and its primary field.
InitialCommands ==
    {[find |-> "users"], [aggregate |-> "users"], [insert |-> "users"]}

CallerCallback == "callback"

(***************************************************************************)
(* Collaborators of command.ts                                             *)
(***************************************************************************)
Assign(doc, key, value) ==
    [f \in DOMAIN doc \cup {key} |-> IF f = key THEN value ELSE doc[f]]

Has(doc, key) == key \in DOMAIN doc

\* new MongoDBNamespace(db, collection)
MongoDBNamespace(db, collection) == [db |-> db, collection |-> collection]

\* MongoDBNamespace.withCollection
withCollection(ns, collection) == MongoDBNamespace(ns.db, collection)

\* MongoDBNamespace.toString
nsToString(ns) == ns.db \o "." \o ns.collection

\* ReadConcern.fromOptions: none unless the options carry a read concern.
ReadConcernFromOptions(options) == options.readConcern

\* WriteConcern.fromOptions: none unless the options carry a write concern.
WriteConcernFromOptions(options) == options.writeConcern

\* Explain.fromOptions: none when the explain option is undefined; otherwise
\* a directive whose verbosity is resolved from the option.
ExplainFromOptions(options) ==
    IF options.explain = Undefined
    THEN Undefined
    ELSE Some([verbosity |-> IF options.explain[1]
                             THEN "allPlansExecution"
                             ELSE "queryPlanner"])

\* commandSupportsReadConcern(cmd): decided by the command's verb.
commandSupportsReadConcern(doc) ==
    \E verb \in {"count", "find", "aggregate", "geoNear", "distinct"} : Has(doc, verb)

\* decorateWithExplain(cmd, explain): the wrapped explain form.
decorateWithExplain(doc, explain) ==
    [explain |-> doc, verbosity |-> explain.verbosity]

\* maxWireVersion(server)
maxWireVersion(server) == server.maxWireVersion

\* A JavaScript string is truthy unless empty.
TruthyString(opt) == opt # Undefined /\ opt[1] # ""

(***************************************************************************)
(* CommandOperation                                                        *)
(***************************************************************************)
SUPPORTS_WRITE_CONCERN_AND_COLLATION == 5

hasAspect(o, aspect) == aspect \in o.aspects

\* ResolveNamespace with the parent taking precedence over the override.
ParentFirstResolveNamespace(par, options) ==
    LET dbNameOverride ==
            IF TruthyString(options.dbName) THEN options.dbName ELSE options.authdb
    IN  IF par # Undefined
        THEN withCollection(par[1].s.namespace, "$cmd")
        ELSE IF TruthyString(dbNameOverride)
             THEN MongoDBNamespace(dbNameOverride[1], "$cmd")
             ELSE MongoDBNamespace("admin", "$cmd")

\* constructor, lines 68-75: the namespace.
ResolveNamespace(par, options) ==
    LET dbNameOverride ==
            IF TruthyString(options.dbName) THEN options.dbName ELSE options.authdb
    IN  IF TruthyString(dbNameOverride)
        THEN MongoDBNamespace(dbNameOverride[1], "$cmd")
        ELSE IF par # Undefined
             THEN withCollection(par[1].s.namespace, "$cmd")
             ELSE MongoDBNamespace("admin", "$cmd")

\* ConstructorThrows testing the explain option for truthiness, not for undefined.
TruthyConstructorThrows(aspects, options) ==
    /\ "EXPLAINABLE" \notin aspects
    /\ options.explain = Some(TRUE)

\* constructor, lines 87-91: the explain directive, or the configuration error.
ConstructorThrows(aspects, options) ==
    /\ "EXPLAINABLE" \notin aspects
    /\ options.explain # Undefined

ResolveExplain(aspects, options) ==
    IF "EXPLAINABLE" \in aspects THEN ExplainFromOptions(options) ELSE Undefined

\* constructor: the object it builds when it does not throw.
NewCommandOperation(par, options, aspects) ==
    [aspects      |-> aspects,
     options      |-> options,
     ns           |-> ResolveNamespace(par, options),
     readConcern  |-> ReadConcernFromOptions(options),
     writeConcern |-> WriteConcernFromOptions(options),
     explain      |-> ResolveExplain(aspects, options)]

\* canRetryWrite ignoring the explain directive.
AlwaysCanRetryWrite(o) == TRUE

\* get canRetryWrite
canRetryWrite(o) ==
    IF hasAspect(o, "EXPLAINABLE") THEN o.explain = Undefined ELSE TRUE

(***************************************************************************)
(* executeCommand: the decoration pipeline.  A pipeline value is the       *)
(* command document together with the names of the fields the pipeline has *)
(* assigned so far in this call.                                           *)
(***************************************************************************)
Put(p, key, value) ==
    [doc |-> Assign(p.doc, key, value), steps |-> p.steps \cup {key}]

\* AttachReadConcern without the test of the command's verb.
AnyVerbAttachReadConcern(o, p, inTransaction) ==
    IF o.readConcern # Undefined /\ ~inTransaction
    THEN Put(p, "readConcern", o.readConcern[1])
    ELSE p

\* lines 111-113
AttachReadConcern(o, p, inTransaction) ==
    IF o.readConcern # Undefined /\ commandSupportsReadConcern(p.doc) /\ ~inTransaction
    THEN Put(p, "readConcern", o.readConcern[1])
    ELSE p

\* CollationUnsupported with the version gate one too low.
LowCollationUnsupported(options, serverWireVersion) ==
    /\ options.collation # Undefined
    /\ serverWireVersion < SUPPORTS_WRITE_CONCERN_AND_COLLATION - 1

\* line 115: the collation capability check
CollationUnsupported(options, serverWireVersion) ==
    /\ options.collation # Undefined
    /\ serverWireVersion < SUPPORTS_WRITE_CONCERN_AND_COLLATION

\* lines 116-120: the error handed to the callback
CollationError(server, serverWireVersion) ==
    [name |-> "MongoError", reason |-> "does not support collation",
     server |-> server.name, wireVersion |-> serverWireVersion]

\* AttachWriteConcern without the test of the transaction.
InTransactionAttachWriteConcern(o, p, inTransaction) ==
    IF o.writeConcern # Undefined /\ hasAspect(o, "WRITE_OPERATION")
    THEN Put(p, "writeConcern", o.writeConcern[1])
    ELSE p

\* lines 125-127
AttachWriteConcern(o, p, inTransaction) ==
    IF o.writeConcern # Undefined /\ hasAspect(o, "WRITE_OPERATION") /\ ~inTransaction
    THEN Put(p, "writeConcern", o.writeConcern[1])
    ELSE p

\* lines 129-131
AttachCollation(options, p) ==
    IF options.collation # Undefined
    THEN Put(p, "collation", options.collation[1])
    ELSE p

\* GatedByWireVersion without the version gate.
UngatedByWireVersion(o, options, p, serverWireVersion, inTransaction) ==
    AttachCollation(options, AttachWriteConcern(o, p, inTransaction))

\* lines 124-132
GatedByWireVersion(o, options, p, serverWireVersion, inTransaction) ==
    IF serverWireVersion >= SUPPORTS_WRITE_CONCERN_AND_COLLATION
    THEN AttachCollation(options, AttachWriteConcern(o, p, inTransaction))
    ELSE p

\* lines 134-136
SetMaxTimeMS(options, p) ==
    IF options.maxTimeMS # Undefined THEN Put(p, "maxTimeMS", options.maxTimeMS[1]) ELSE p

\* lines 138-140
SetComment(options, p) ==
    IF options.comment # Undefined /\ options.comment[1].kind = "string"
    THEN Put(p, "comment", options.comment[1].value)
    ELSE p

\* line 146
ExplainActive(o) == hasAspect(o, "EXPLAINABLE") /\ o.explain # Undefined

\* LegacyAggregate with the version bound one too high.
LateLegacyAggregate(doc, serverWireVersion) ==
    serverWireVersion <= 6 /\ Has(doc, "aggregate")

\* line 147
LegacyAggregate(doc, serverWireVersion) ==
    serverWireVersion < 6 /\ Has(doc, "aggregate")

\* ExplainInPlace with the wrapped form written back into the caller's document.
WrapInPlace(o, p, serverWireVersion) ==
    IF ExplainActive(o)
    THEN IF serverWireVersion < 6 /\ Has(p.doc, "aggregate")
         THEN Put(p, "explain", TRUE)
         ELSE [doc |-> decorateWithExplain(p.doc, o.explain[1]), steps |-> p.steps \cup {"explain"}]
    ELSE p

\* lines 146-153: the caller's document after the explain step (the wrapped
\* form is a new document bound to the local variable only).
ExplainInPlace(o, p, serverWireVersion) ==
    IF ExplainActive(o) /\ LegacyAggregate(p.doc, serverWireVersion)
    THEN Put(p, "explain", TRUE)
    ELSE p

\* lines 146-153: the value of the local variable cmd after the explain step.
ExplainLocal(o, p, serverWireVersion) ==
    IF ExplainActive(o) /\ ~LegacyAggregate(p.doc, serverWireVersion)
    THEN decorateWithExplain(p.doc, o.explain[1])
    ELSE ExplainInPlace(o, p, serverWireVersion).doc

\* lines 155-160
ServerCommand(o, doc, callback) ==
    [type |-> "send", ns |-> nsToString(o.ns), cmd |-> doc, callback |-> callback]

\* lines 116-121
CallbackError(error, callback) ==
    [type |-> "callback", error |-> error, callback |-> callback]

\* executeCommand without the return after the callback of the collation check.
executeCommandNoReturn(o, server, doc, inTransaction, callback) ==
    LET options == o.options
        serverWireVersion == maxWireVersion(server)
        p1 == AttachReadConcern(o, [doc |-> doc, steps |-> {}], inTransaction)
        rejected == IF CollationUnsupported(options, serverWireVersion)
                    THEN <<CallbackError(CollationError(server, serverWireVersion), callback)>>
                    ELSE <<>>
        p2 == GatedByWireVersion(o, options, p1, serverWireVersion, inTransaction)
        p3 == SetMaxTimeMS(options, p2)
        p4 == SetComment(options, p3)
        p5 == ExplainInPlace(o, p4, serverWireVersion)
    IN  [doc     |-> p5.doc,
         steps   |-> p5.steps,
         effects |-> rejected \o <<ServerCommand(o, ExplainLocal(o, p4, serverWireVersion), callback)>>]

\* executeCommand(server, cmd, callback), lines 103-161.  The result is the
\* caller's document as the call leaves it, the fields the call assigned,
\* and the calls it made, in order (callback(error) or server.command(...)).
executeCommand(o, server, doc, inTransaction, callback) ==
    LET options == o.options
        serverWireVersion == maxWireVersion(server)
        p1 == AttachReadConcern(o, [doc |-> doc, steps |-> {}], inTransaction)
    IN  IF CollationUnsupported(options, serverWireVersion)
        THEN [doc     |-> p1.doc,
              steps   |-> p1.steps,
              effects |-> <<CallbackError(CollationError(server, serverWireVersion), callback)>>]
        ELSE LET p2 == GatedByWireVersion(o, options, p1, serverWireVersion, inTransaction)
                 p3 == SetMaxTimeMS(options, p2)
                 p4 == SetComment(options, p3)
                 p5 == ExplainInPlace(o, p4, serverWireVersion)
             IN  [doc     |-> p5.doc,
                  steps   |-> p5.steps,
                  effects |-> <<ServerCommand(o, ExplainLocal(o, p4, serverWireVersion), callback)>>]

(***************************************************************************)
(* The state machine                                                       *)
(***************************************************************************)
NoCall ==
    [made |-> FALSE, again |-> FALSE, repeat |-> FALSE, wireVersion |-> 0,
     inTransaction |-> FALSE, before |-> Undefined, steps |-> {}, effects |-> <<>>]

Init ==
    /\ pc = "new"
    /\ args = Undefined
    /\ op = Undefined
    /\ cmd = Undefined
    /\ call = NoCall

\* new CommandOperation(parent, options) of an operation kind with the given aspects
Construct ==
    /\ pc = "new"
    /\ \E in \in ConstructorInputs, aspects \in SUBSET Aspects :
         /\ args' = Some([parent |-> in.parent, options |-> in.options, aspects |-> aspects])
         /\ IF ConstructorThrows(aspects, in.options)
            THEN /\ pc' = "threw"
                 /\ op' = Undefined
            ELSE /\ pc' = "ready"
                 /\ op' = Some(NewCommandOperation(in.parent, in.options, aspects))
    /\ UNCHANGED <<cmd, call>>

Run(doc, again, wireVersion, inTransaction) ==
    LET server == [name |-> "server", maxWireVersion |-> wireVersion]
        r == executeCommand(op[1], server, doc, inTransaction, CallerCallback)
    IN  /\ cmd' = Some(r.doc)
        /\ call' = [made |-> TRUE, again |-> again,
                    repeat |-> /\ again
                               /\ wireVersion = call.wireVersion
                               /\ inTransaction = call.inTransaction,
                    wireVersion |-> wireVersion, inTransaction |-> inTransaction,
                    before |-> Some(doc), steps |-> r.steps, effects |-> r.effects]
        /\ UNCHANGED <<pc, args, op>>

\* executeCommand on a command document the caller has just built
ExecuteCommand ==
    /\ pc = "ready"
    /\ \E doc \in InitialCommands, wireVersion \in WireVersions, inTransaction \in BOOLEAN :
         Run(doc, FALSE, wireVersion, inTransaction)

\* executeCommand once more on the document as the last call left it
ExecuteAgain ==
    /\ pc = "ready"
    /\ call.made
    /\ \E wireVersion \in WireVersions, inTransaction \in BOOLEAN :
         Run(cmd[1], TRUE, wireVersion, inTransaction)

Next == Construct \/ ExecuteCommand \/ ExecuteAgain

Spec == Init /\ [][Next]_vars

(***************************************************************************)
(* Vocabulary of the properties                                            *)
(***************************************************************************)
Constructed == pc = "ready"

Operation == op[1]

Arguments == args[1]

\* The server.command calls and the callback invocations of the last call.
Sends == {i \in 1..Len(call.effects) : call.effects[i].type = "send"}

CallbackErrors == {i \in 1..Len(call.effects) : call.effects[i].type = "callback"}

Sent == call.made /\ Sends # {}

\* The command document the last call handed to server.command.
Forwarded == call.effects[CHOOSE i \in Sends : TRUE].cmd

Wrapped(doc) == Has(doc, "verbosity")

\* The command itself: the document inside the wrapped explain form, if wrapped.
Inner(doc) == IF Wrapped(doc) THEN doc.explain ELSE doc

SameField(a, b, key) ==
    /\ Has(a, key) <=> Has(b, key)
    /\ Has(a, key) => a[key] = b[key]

\* The call was made with a collation option against a server below wire version 5.
CollationBelowFive ==
    /\ call.made
    /\ Arguments.options.collation # Undefined
    /\ call.wireVersion < 5

\* The call invoked the callback once with the collation error and sent nothing.
RejectedForCollation ==
    /\ Len(call.effects) = 1
    /\ call.effects[1].type = "callback"
    /\ call.effects[1].callback = CallerCallback
    /\ call.effects[1].error.name = "MongoError"
    /\ call.effects[1].error.reason = "does not support collation"
    /\ call.effects[1].error.wireVersion = call.wireVersion

(***************************************************************************)
(* C1: an executeCommand call with a collation option against a server     *)
(* whose wire version is below 5 delivers a capability-mismatch error to   *)
(* the caller's callback, and server.command is not invoked, whatever the  *)
(* other options, aspects, concerns and transaction state.                 *)
(***************************************************************************)
C1_CollationGate ==
    CollationBelowFive => RejectedForCollation /\ Sends = {}

C1_Witness ==
    /\ CollationBelowFive
    /\ Operation.readConcern # Undefined
    /\ Operation.writeConcern # Undefined
    /\ Operation.aspects = Aspects
    /\ Operation.explain # Undefined
    /\ call.inTransaction
    /\ CallbackErrors = {1}

(***************************************************************************)
(* C2: while a transaction is active, executeCommand attaches neither a    *)
(* readConcern nor a writeConcern field: the forwarded command has these   *)
(* fields exactly as the document had them when it was passed in.          *)
(***************************************************************************)
C2_TransactionSuppression ==
    (call.made /\ call.inTransaction) =>
        /\ call.steps \cap {"readConcern", "writeConcern"} = {}
        /\ SameField(cmd[1], call.before[1], "readConcern")
        /\ SameField(cmd[1], call.before[1], "writeConcern")
        /\ Sent =>
            /\ SameField(Inner(Forwarded), call.before[1], "readConcern")
            /\ SameField(Inner(Forwarded), call.before[1], "writeConcern")
            /\ Wrapped(Forwarded) => DOMAIN Forwarded = {"explain", "verbosity"}

C2_Witness ==
    /\ Sent
    /\ call.inTransaction
    /\ ~call.again
    /\ Operation.readConcern # Undefined
    /\ Operation.writeConcern # Undefined
    /\ hasAspect(Operation, "WRITE_OPERATION")
    /\ commandSupportsReadConcern(call.before[1])
    /\ call.wireVersion >= 5
    /\ ~Has(Forwarded, "readConcern")
    /\ ~Has(Forwarded, "writeConcern")

(***************************************************************************)
(* C3: for an explainable operation with an active explain directive, a    *)
(* forwarded aggregate command on a wire version below 6 is the caller's   *)
(* command with explain set to true, not wrapped; in every other case the  *)
(* forwarded command is the wrapped explain form, carrying the caller's    *)
(* command and the resolved verbosity.                                     *)
(***************************************************************************)
C3_LegacyAggregateExplain ==
    (Sent /\ hasAspect(Operation, "EXPLAINABLE") /\ Arguments.options.explain # Undefined) =>
        IF call.wireVersion < 6 /\ Has(call.before[1], "aggregate")
        THEN /\ ~Wrapped(Forwarded)
             /\ Has(Forwarded, "aggregate")
             /\ Has(Forwarded, "explain")
             /\ Forwarded.explain = TRUE
             /\ Forwarded = cmd[1]
        ELSE /\ Wrapped(Forwarded)
             /\ DOMAIN Forwarded = {"explain", "verbosity"}
             /\ Forwarded.explain = cmd[1]
             /\ Forwarded.verbosity = IF Arguments.options.explain[1]
                                      THEN "allPlansExecution"
                                      ELSE "queryPlanner"

C3_Witness ==
    /\ Sent
    /\ hasAspect(Operation, "EXPLAINABLE")
    /\ Operation.explain # Undefined
    /\ call.wireVersion = 5
    /\ Has(call.before[1], "aggregate")
    /\ ~call.again
    /\ ~Wrapped(Forwarded)
    /\ Forwarded.explain = TRUE

(***************************************************************************)
(* C4: constructing an operation that lacks the EXPLAINABLE aspect with an *)
(* explain option (any value but undefined, false included) throws, so no  *)
(* executeCommand and no send follows; constructing an explainable         *)
(* operation with no explain option succeeds, and no executeCommand on it  *)
(* sets an explain flag or wraps the command.                              *)
(***************************************************************************)
C4_ExplainGate ==
    pc # "new" =>
        /\ ("EXPLAINABLE" \notin Arguments.aspects /\ Arguments.options.explain # Undefined) =>
              /\ pc = "threw"
              /\ op = Undefined
              /\ ~call.made
              /\ call.effects = <<>>
        /\ ("EXPLAINABLE" \in Arguments.aspects /\ Arguments.options.explain = Undefined) =>
              /\ pc = "ready"
              /\ call.made =>
                    /\ "explain" \notin call.steps
                    /\ SameField(cmd[1], call.before[1], "explain")
                    /\ Sent => ~Wrapped(Forwarded) /\ Forwarded = cmd[1]

C4_Witness ==
    /\ pc = "threw"
    /\ "EXPLAINABLE" \notin Arguments.aspects
    /\ Arguments.options.explain = Some(FALSE)

(***************************************************************************)
(* C5: after construction and any number of executeCommand calls,          *)
(* canRetryWrite of an explainable operation is true exactly when no       *)
(* explain option was given, and of a non-explainable operation always     *)
(* true; whenever executeCommand applied an explain decoration (the flag   *)
(* or the wrapped form), canRetryWrite is false.                           *)
(***************************************************************************)
C5_RetryEligibility ==
    Constructed =>
        /\ "EXPLAINABLE" \in Arguments.aspects =>
              (canRetryWrite(Operation) <=> Arguments.options.explain = Undefined)
        /\ "EXPLAINABLE" \notin Arguments.aspects => canRetryWrite(Operation)
        /\ (call.made /\ "explain" \in call.steps) => ~canRetryWrite(Operation)
        /\ (Sent /\ Wrapped(Forwarded)) => ~canRetryWrite(Operation)

C5_Witness ==
    /\ Constructed
    /\ Sent
    /\ Wrapped(Forwarded)
    /\ hasAspect(Operation, "WRITE_OPERATION")
    /\ Arguments.options.explain = Some(FALSE)
    /\ ~canRetryWrite(Operation)

(***************************************************************************)
(* C6: the namespace is resolved at construction by precedence: a          *)
(* database-name override in the options (a non-empty dbName, else authdb) *)
(* whatever the parent; otherwise the parent's database; otherwise         *)
(* "admin".  The collection is "$cmd", no executeCommand changes the       *)
(* namespace, and every send targets that namespace's string.              *)
(***************************************************************************)
C6_ExpectedDb ==
    LET o == Arguments.options
        override == IF o.dbName # Undefined /\ o.dbName # Some("") THEN o.dbName ELSE o.authdb
    IN  IF override # Undefined
        THEN override[1]
        ELSE IF Arguments.parent # Undefined
             THEN Arguments.parent[1].s.namespace.db
             ELSE "admin"

C6_NamespacePrecedence ==
    Constructed =>
        /\ Operation.ns.db = C6_ExpectedDb
        /\ Operation.ns.collection = "$cmd"
        /\ \A i \in Sends : call.effects[i].ns = C6_ExpectedDb \o ".$cmd"

C6_Witness ==
    /\ Constructed
    /\ Arguments.parent # Undefined
    /\ Arguments.options.dbName = Some("db1")
    /\ Arguments.options.authdb # Undefined
    /\ Sent
    /\ call.again
    /\ call.effects[1].ns = "db1.$cmd"

(***************************************************************************)
(* C7: running executeCommand again on the command document as the         *)
(* previous run left it, with the same wire version and transaction state, *)
(* makes the same calls: the command forwarded to server.command has the   *)
(* fields and values of the one forwarded before.                          *)
(***************************************************************************)
C7_IdempotentDecoration ==
    [][(call.made /\ call'.made /\ call'.repeat) => call'.effects = call.effects]_vars

C7_Witness ==
    /\ call.repeat
    /\ Sent
    /\ Wrapped(Forwarded)
    /\ {"readConcern", "writeConcern", "collation", "maxTimeMS", "comment"} \subseteq call.steps

(***************************************************************************)
(* C8: every executeCommand call either invokes the callback once with an  *)
(* error and sends nothing, or makes exactly one server.command call with  *)
(* the caller's callback and does not invoke the callback itself; the      *)
(* first happens exactly when a collation option was given and the wire    *)
(* version is below 5.                                                     *)
(***************************************************************************)
C8_ExactlyOneOutcome ==
    call.made =>
        /\ Len(call.effects) = 1
        /\ IF CollationBelowFive
           THEN RejectedForCollation /\ Sends = {}
           ELSE /\ Sends = {1}
                /\ CallbackErrors = {}
                /\ call.effects[1].callback = CallerCallback

C8_Witness ==
    /\ Sends = {1}
    /\ call.wireVersion < 5
    /\ Arguments.options.collation = Undefined
    /\ Operation.readConcern # Undefined
    /\ Operation.writeConcern # Undefined
    /\ Arguments.options.maxTimeMS # Undefined
    /\ Arguments.options.comment # Undefined
    /\ Operation.explain # Undefined

(***************************************************************************)
(* C9: executeCommand attaches a writeConcern field exactly when the wire  *)
(* version is at least 5, a write concern was resolved at construction,    *)
(* the operation has the WRITE_OPERATION aspect and no transaction is      *)
(* active.  Otherwise the field is left as it was, and the omission is no  *)
(* error: unless the collation check rejects the call, the command is sent.*)
(***************************************************************************)
C9_WriteConcernApplies ==
    /\ call.wireVersion >= 5
    /\ Arguments.options.writeConcern # Undefined
    /\ "WRITE_OPERATION" \in Arguments.aspects
    /\ ~call.inTransaction

C9_WriteConcernGate ==
    call.made =>
        /\ "writeConcern" \in call.steps <=> C9_WriteConcernApplies
        /\ C9_WriteConcernApplies =>
              /\ Sent
              /\ Has(Inner(Forwarded), "writeConcern")
              /\ Inner(Forwarded).writeConcern = Arguments.options.writeConcern[1]
        /\ ~C9_WriteConcernApplies =>
              /\ SameField(cmd[1], call.before[1], "writeConcern")
              /\ CollationBelowFive \/ (Sends = {1} /\ CallbackErrors = {})
              /\ Sent => SameField(Inner(Forwarded), call.before[1], "writeConcern")

C9_Witness ==
    /\ Sent
    /\ ~call.again
    /\ call.wireVersion < 5
    /\ Arguments.options.writeConcern # Undefined
    /\ Arguments.options.collation = Undefined
    /\ "WRITE_OPERATION" \in Arguments.aspects
    /\ ~call.inTransaction
    /\ ~Has(Forwarded, "writeConcern")
    /\ CallbackErrors = {}

(***************************************************************************)
(* C10 as stated: when executeCommand fails the collation check, the       *)
(* caller's command document has exactly the fields and values it had when *)
(* it was passed in.                                                       *)
(***************************************************************************)
C10_NoMutationOnReject ==
    CollationBelowFive => cmd[1] = call.before[1]

(***************************************************************************)
(* C10: when executeCommand fails the collation check, the only change to  *)
(* the caller's command document is the readConcern field, attached before *)
(* the check when a read concern is configured, the command supports read  *)
(* concern and no transaction is active; no write concern, collation, max  *)
(* time, comment or explain step has run.                                  *)
(***************************************************************************)
C10_ReadConcernApplies ==
    /\ Arguments.options.readConcern # Undefined
    /\ commandSupportsReadConcern(call.before[1])
    /\ ~call.inTransaction

C10_OnlyReadConcernOnReject ==
    CollationBelowFive =>
        /\ call.steps = IF C10_ReadConcernApplies THEN {"readConcern"} ELSE {}
        /\ cmd[1] = IF C10_ReadConcernApplies
                    THEN Assign(call.before[1], "readConcern", Arguments.options.readConcern[1])
                    ELSE call.before[1]

C10_Witness ==
    /\ CollationBelowFive
    /\ ~call.again
    /\ call.steps = {"readConcern"}
    /\ cmd[1] # call.before[1]
    /\ Arguments.options.writeConcern # Undefined
    /\ Arguments.options.maxTimeMS # Undefined
    /\ Arguments.options.comment # Undefined
    /\ Arguments.options.explain # Undefined
    /\ Sends = {}

====
